---- MODULE Spec2Model ----
(***************************************************************************)
(* A model of simpleproc.py: the block tokenizer, the recursive macro      *)
(* evaluator, the macro registry, the per-include evaluation context and   *)
(* the line processor, driven by the top-level loop over the source files. *)
(*                                                                         *)
(* Text is a sequence of one-character strings.  Columns and offsets are   *)
(* 0-based as in the source: line[a:b] is Slice(line, a, b).               *)
(***************************************************************************)
EXTENDS Integers, Sequences, FiniteSets, TLC

(***************************************************************************)
(* Characters and the regular-expression classes \d, \w, [a-zA-Z], \s.     *)
(***************************************************************************)
DigitChars == <<"0", "1", "2", "3", "4", "5", "6", "7", "8", "9">>

Digit == {DigitChars[i] : i \in 1..10}

Alpha ==
  {"a", "b", "c", "d", "e", "f", "g", "h", "i", "j", "k", "l", "m",
   "n", "o", "p", "q", "r", "s", "t", "u", "v", "w", "x", "y", "z",
   "A", "B", "C", "D", "E", "F", "G", "H", "I", "J", "K", "L", "M",
   "N", "O", "P", "Q", "R", "S", "T", "U", "V", "W", "X", "Y", "Z"}

Word == Alpha \cup Digit \cup {"_"}

Space == {" ", "\t", "\n", "\r"}

DigitVal(c) == (CHOOSE i \in 1..10 : DigitChars[i] = c) - 1

At(s, p) == s[p + 1]

Slice(s, a, b) == SubSeq(s, a + 1, b)

RECURSIVE Join(_)
Join(cs) == IF cs = <<>> THEN "" ELSE Head(cs) \o Join(Tail(cs))

RECURSIVE Flatten(_)
Flatten(ss) == IF ss = <<>> THEN <<>> ELSE Head(ss) \o Flatten(Tail(ss))

StartsWith(s, p, pat) ==
  /\ p + Len(pat) <= Len(s)
  /\ Slice(s, p, p + Len(pat)) = pat

\* offset after the longest run of characters of class C that starts at p
RECURSIVE RunEnd(_, _, _)
RunEnd(s, p, C) ==
  IF p < Len(s) /\ At(s, p) \in C THEN RunEnd(s, p + 1, C) ELSE p

(***************************************************************************)
(* Values: int, float (an exact fraction n/d in lowest terms, d > 0) and   *)
(* str.  One record shape for the three.                                   *)
(***************************************************************************)
IntV(n) == [t |-> "int", n |-> n, d |-> 1, s |-> <<>>]

StrV(s) == [t |-> "str", n |-> 0, d |-> 1, s |-> s]

Abs(n) == IF n < 0 THEN -n ELSE n

RECURSIVE Gcd(_, _)
Gcd(a, b) == IF b = 0 THEN a ELSE Gcd(b, a % b)

FloatV(n, d) ==
  LET g == Gcd(Abs(n), d)
  IN  [t |-> "float", n |-> n \div g, d |-> d \div g, s |-> <<>>]

RECURSIVE Pow10(_)
Pow10(k) == IF k = 0 THEN 1 ELSE 10 * Pow10(k - 1)

\* int(text) of a run of decimal digits
RECURSIVE ParseDigits(_, _)
ParseDigits(cs, acc) ==
  IF cs = <<>> THEN acc
  ELSE ParseDigits(Tail(cs), 10 * acc + DigitVal(Head(cs)))

RECURSIVE NatStr(_)
NatStr(n) ==
  IF n < 10 THEN <<DigitChars[n + 1]>>
  ELSE NatStr(n \div 10) \o <<DigitChars[(n % 10) + 1]>>

IntStr(n) == IF n < 0 THEN <<"-">> \o NatStr(-n) ELSE NatStr(n)

RECURSIVE OnlyTwoFive(_)
OnlyTwoFive(d) ==
  IF d = 1 THEN TRUE
  ELSE IF d % 2 = 0 THEN OnlyTwoFive(d \div 2)
  ELSE IF d % 5 = 0 THEN OnlyTwoFive(d \div 5)
  ELSE FALSE

\* the digits of r/d after the decimal point, for a terminating expansion
RECURSIVE FracDigits(_, _)
FracDigits(r, d) ==
  IF r = 0 THEN <<>>
  ELSE <<DigitChars[((10 * r) \div d) + 1]>> \o FracDigits((10 * r) % d, d)

\* str(float).  A terminating decimal is rendered digit by digit (4.0, 0.5);
\* a repeating one is rendered as one symbol that names the fraction.
FloatStr(n, d) ==
  IF OnlyTwoFive(d)
  THEN LET a == Abs(n)
           frac == FracDigits(a % d, d)
       IN  (IF n < 0 THEN <<"-">> ELSE <<>>) \o NatStr(a \div d) \o <<".">>
             \o (IF frac = <<>> THEN <<"0">> ELSE frac)
  ELSE <<ToString(n) \o "/" \o ToString(d)>>

\* str(value)
Str(v) ==
  CASE v.t = "int" -> IntStr(v.n)
    [] v.t = "float" -> FloatStr(v.n, v.d)
    [] OTHER -> v.s

StrAll(vs) == [i \in 1..Len(vs) |-> Str(vs[i])]

(***************************************************************************)
(* Delimiters.  The table's patterns are escaped literals, so a pattern is *)
(* the text it matches.  A media type without an entry is "none".          *)
(***************************************************************************)
MIME_2_DELIMITERS ==
  [text_x_python |-> <<(<<"\"", "\"", "\"", "@", "@">>), (<<"@", "@", "\"", "\"", "\"">>)>>,
   text_javascript |-> <<(<<"/", "*", "@">>), (<<"@", "*", "/">>)>>,
   text_html |-> <<(<<"<", "!", "-", "-", "@">>), (<<"@", "-", "-", ">">>)>>,
   text_xml |-> <<(<<"<", "!", "-", "-", "@">>), (<<"@", "-", "-", ">">>)>>]

\* the pair (block start, block end) of a media type
make_tokenizer_pattern(mime) ==
  IF mime \in DOMAIN MIME_2_DELIMITERS
  THEN MIME_2_DELIMITERS[mime]
  ELSE <<(<<"{", "@">>), (<<"@", "}">>)>>

(***************************************************************************)
(* COMMON_TOKEN_RULES: each Match operator gives the offset after the      *)
(* match of one alternative at offset p, or -1 when it does not match.     *)
(***************************************************************************)
MatchVariable(s, p) ==
  IF At(s, p) = "$" /\ p + 1 < Len(s) /\ At(s, p + 1) \in Word
  THEN RunEnd(s, p + 1, Word) ELSE -1

MatchMacro(s, p) ==
  IF At(s, p) \in Alpha THEN RunEnd(s, p + 1, Word) ELSE -1

\* \d+(?:\.\d+)?
MatchNumber(s, p) ==
  IF At(s, p) \in Digit
  THEN LET q == RunEnd(s, p, Digit)
       IN  IF q + 1 < Len(s) /\ At(s, q) = "." /\ At(s, q + 1) \in Digit
           THEN RunEnd(s, q + 1, Digit) ELSE q
  ELSE -1

\* (?:\\?.)*?" from offset q: the closing quote is tried first; otherwise one
\* unit is taken, a backslash with the character after it before a lone
\* character, and '.' never matches a newline.
RECURSIVE StrEnd(_, _)
StrEnd(s, q) ==
  IF q >= Len(s) THEN -1
  ELSE IF At(s, q) = "\"" THEN q + 1
  ELSE IF At(s, q) = "\\" /\ q + 1 < Len(s) /\ At(s, q + 1) # "\n"
       THEN LET r == StrEnd(s, q + 2)
            IN  IF r # -1 THEN r ELSE StrEnd(s, q + 1)
  ELSE IF At(s, q) # "\n" THEN StrEnd(s, q + 1)
  ELSE -1

MatchString(s, p) == IF At(s, p) = "\"" THEN StrEnd(s, p + 1) ELSE -1

MatchLiteral(s, p) ==
  IF MatchNumber(s, p) # -1 THEN MatchNumber(s, p) ELSE MatchString(s, p)

\* text.replace('\\"', '"')
RECURSIVE Unescape(_)
Unescape(cs) ==
  IF cs = <<>> THEN <<>>
  ELSE IF Len(cs) >= 2 /\ cs[1] = "\\" /\ cs[2] = "\""
       THEN <<"\"">> \o Unescape(SubSeq(cs, 3, Len(cs)))
  ELSE <<Head(cs)>> \o Unescape(Tail(cs))

\* the value of a literal token from its text
LiteralValue(text) ==
  IF Head(text) = "\""
  THEN StrV(Unescape(SubSeq(text, 2, Len(text) - 1)))
  ELSE IF \E i \in 1..Len(text) : text[i] = "."
       THEN LET dot == CHOOSE i \in 1..Len(text) : text[i] = "."
                frac == SubSeq(text, dot + 1, Len(text))
            IN  FloatV(ParseDigits(SubSeq(text, 1, dot - 1) \o frac, 0),
                       Pow10(Len(frac)))
  ELSE IntV(ParseDigits(text, 0))

NoVal == IntV(0)

Tok(kind, name, val, endp) ==
  [kind |-> kind, name |-> name, val |-> val, endp |-> endp]

\* the first alternative of the token pattern that matches at offset p
TokenAt(s, p, close) ==
  IF StartsWith(s, p, close) THEN Tok("block_end", "", NoVal, p + Len(close))
  ELSE IF MatchVariable(s, p) # -1
       THEN Tok("variable", Join(Slice(s, p + 1, MatchVariable(s, p))), NoVal,
                MatchVariable(s, p))
  ELSE IF MatchMacro(s, p) # -1
       THEN Tok("macro", Join(Slice(s, p, MatchMacro(s, p))), NoVal,
                MatchMacro(s, p))
  ELSE IF MatchLiteral(s, p) # -1
       THEN Tok("literal", "", LiteralValue(Slice(s, p, MatchLiteral(s, p))),
                MatchLiteral(s, p))
  ELSE IF At(s, p) = "(" THEN Tok("group_open", "", NoVal, p + 1)
  ELSE IF At(s, p) = ")" THEN Tok("group_close", "", NoVal, p + 1)
  ELSE IF At(s, p) \in Space THEN Tok("whitespace", "", NoVal, RunEnd(s, p, Space))
  ELSE Tok("error", "", NoVal, RunEnd(s, p, {s[i] : i \in 1..Len(s)} \ Space))

\* What the tokenizer generator produces from offset pos, one entry per pull:
\* the tokens it yields, then the entry that ends it: "block_end" (it
\* returns), "error" (syntax error) or "eof" (unexpected end of file).  Each
\* entry carries the offset the generator stores in endpos when it is pulled.
RECURSIVE tokenizer(_, _, _)
tokenizer(s, pos, close) ==
  IF pos >= Len(s) THEN <<Tok("eof", "", NoVal, pos)>>
  ELSE LET tk == TokenAt(s, pos, close)
       IN  CASE tk.kind = "whitespace" -> tokenizer(s, tk.endp, close)
             [] tk.kind \in {"block_end", "error"} -> <<tk>>
             [] OTHER -> <<tk>> \o tokenizer(s, tk.endp, close)

\* block_start.finditer(line): the spans of the non-overlapping matches, each
\* the leftmost match at or after the end of the one before
RECURSIVE FindAll(_, _, _)
FindAll(s, p, open) ==
  LET at == {q \in p..(Len(s) - Len(open)) : StartsWith(s, q, open)}
  IN  IF at = {} THEN <<>>
      ELSE LET q == CHOOSE x \in at : \A y \in at : x <= y
           IN  <<(<<q, q + Len(open)>>)>> \o FindAll(s, q + Len(open), open)

(***************************************************************************)
(* Paths (os.path on POSIX) and files.                                     *)
(***************************************************************************)
\* the offset after the last "/" of p, 0 when there is none
RECURSIVE LastSlash(_, _)
LastSlash(p, i) ==
  IF i = 0 THEN 0 ELSE IF p[i] = "/" THEN i ELSE LastSlash(p, i - 1)

RECURSIVE RStripSlash(_)
RStripSlash(p) ==
  IF p # <<>> /\ p[Len(p)] = "/" THEN RStripSlash(SubSeq(p, 1, Len(p) - 1)) ELSE p

Dirname(p) ==
  LET head == SubSeq(p, 1, LastSlash(p, Len(p)))
  IN  IF RStripSlash(head) = <<>> THEN head ELSE RStripSlash(head)

Basename(p) == SubSeq(p, LastSlash(p, Len(p)) + 1, Len(p))

PathJoin(a, b) ==
  IF b # <<>> /\ Head(b) = "/" THEN b
  ELSE IF a = <<>> \/ a[Len(a)] = "/" THEN a \o b
  ELSE a \o <<"/">> \o b

\* path.split("/")
RECURSIVE SplitSlash(_, _)
SplitSlash(p, cur) ==
  IF p = <<>> THEN <<cur>>
  ELSE IF Head(p) = "/" THEN <<cur>> \o SplitSlash(Tail(p), <<>>)
  ELSE SplitSlash(Tail(p), Append(cur, Head(p)))

RECURSIVE NormComps(_, _, _)
NormComps(comps, new, rooted) ==
  IF comps = <<>> THEN new
  ELSE LET c == Head(comps)
           dd == <<".", ".">>
       IN  IF c = <<>> \/ c = <<".">> THEN NormComps(Tail(comps), new, rooted)
           ELSE IF c # dd \/ (~rooted /\ new = <<>>)
                     \/ (new # <<>> /\ new[Len(new)] = dd)
                THEN NormComps(Tail(comps), Append(new, c), rooted)
           ELSE IF new # <<>>
                THEN NormComps(Tail(comps), SubSeq(new, 1, Len(new) - 1), rooted)
           ELSE NormComps(Tail(comps), new, rooted)

RECURSIVE JoinSlash(_)
JoinSlash(comps) ==
  IF comps = <<>> THEN <<>>
  ELSE IF Len(comps) = 1 THEN comps[1]
  ELSE comps[1] \o <<"/">> \o JoinSlash(Tail(comps))

Normpath(p) ==
  IF p = <<>> THEN <<".">>
  ELSE LET slashes == IF Head(p) # "/" THEN 0
                      ELSE IF Len(p) >= 2 /\ p[2] = "/" /\ ~(Len(p) >= 3 /\ p[3] = "/")
                           THEN 2 ELSE 1
           body == JoinSlash(NormComps(SplitSlash(p, <<>>), <<>>, slashes > 0))
           res == [i \in 1..slashes |-> "/"] \o body
       IN  IF res = <<>> THEN <<".">> ELSE res

\* mimetypes.guess_type(name)[0] for the extensions of MIME_2_DELIMITERS
RECURSIVE LastDot(_, _)
LastDot(p, i) ==
  IF i = 0 THEN 0 ELSE IF p[i] = "." THEN i ELSE LastDot(p, i - 1)

GuessType(name) ==
  LET dot == LastDot(name, Len(name))
      ext == IF dot <= 1 THEN "" ELSE Join(SubSeq(name, dot + 1, Len(name)))
  IN  CASE ext = "py" -> "text_x_python"
        [] ext = "js" -> "text_javascript"
        [] ext \in {"html", "htm"} -> "text_html"
        [] ext = "xml" -> "text_xml"
        [] OTHER -> "none"

\* the elements of s at the indices in K, in order
Pick(s, K) ==
  [j \in 1..Cardinality(K) |->
     s[CHOOSE k \in K : Cardinality({x \in K : x <= k}) = j]]

\* text mode with universal newlines: "\r\n" and "\r" are read as "\n"
Universal(cs) ==
  LET kept == {i \in 1..Len(cs) : ~(cs[i] = "\n" /\ i > 1 /\ cs[i - 1] = "\r")}
      read == [i \in 1..Len(cs) |-> IF cs[i] = "\r" THEN "\n" ELSE cs[i]]
  IN  Pick(read, kept)

\* the lines of a text, each with its "\n", the last one possibly without
SplitLines(cs) ==
  LET ends == {i \in 1..Len(cs) : cs[i] = "\n" \/ i = Len(cs)}
      first(e) == IF \E x \in ends : x < e
                  THEN (CHOOSE x \in ends : x < e /\ \A y \in ends : y < e => y <= x) + 1
                  ELSE 1
      all == [e \in 1..Len(cs) |-> SubSeq(cs, first(e), e)]
  IN  Pick(all, ends)

\* open(pathname, "rt").readlines() on the content of a file
Readlines(content) == SplitLines(Universal(content))

(***************************************************************************)
(* The macro functions that touch no global state.  A macro's result is    *)
(* the sequence of values it yields, or the exception it raises.           *)
(***************************************************************************)
Ok(vals) == [err |-> "", vals |-> vals]

Err(msg) == [err |-> msg, vals |-> <<>>]

IsNum(v) == v.t \in {"int", "float"}

RECURSIVE RepeatSeq(_, _)
RepeatSeq(n, xs) == IF n <= 0 THEN <<>> ELSE xs \o RepeatSeq(n - 1, xs)

\* the four lambdas of the arithmetic loop, named by their operator
Reducer(op, a, b) ==
  CASE op = "add" ->
         IF a.t = "int" /\ b.t = "int" THEN Ok(<<IntV(a.n + b.n)>>)
         ELSE IF IsNum(a) /\ IsNum(b)
              THEN Ok(<<FloatV(a.n * b.d + b.n * a.d, a.d * b.d)>>)
         ELSE IF a.t = "str" /\ b.t = "str" THEN Ok(<<StrV(a.s \o b.s)>>)
         ELSE Err("TypeError")
    [] op = "sub" ->
         IF a.t = "int" /\ b.t = "int" THEN Ok(<<IntV(a.n - b.n)>>)
         ELSE IF IsNum(a) /\ IsNum(b)
              THEN Ok(<<FloatV(a.n * b.d - b.n * a.d, a.d * b.d)>>)
         ELSE Err("TypeError")
    [] op = "mul" ->
         IF a.t = "int" /\ b.t = "int" THEN Ok(<<IntV(a.n * b.n)>>)
         ELSE IF IsNum(a) /\ IsNum(b) THEN Ok(<<FloatV(a.n * b.n, a.d * b.d)>>)
         ELSE IF a.t = "str" /\ b.t = "int" THEN Ok(<<StrV(RepeatSeq(b.n, a.s))>>)
         ELSE IF a.t = "int" /\ b.t = "str" THEN Ok(<<StrV(RepeatSeq(a.n, b.s))>>)
         ELSE Err("TypeError")
    [] OTHER ->
         IF ~(IsNum(a) /\ IsNum(b)) THEN Err("TypeError")
         ELSE IF b.n = 0 THEN Err("ZeroDivisionError")
         ELSE IF b.n < 0 THEN Ok(<<FloatV(-(a.n * b.d), a.d * (-b.n))>>)
         ELSE Ok(<<FloatV(a.n * b.d, a.d * b.n)>>)

\* the loop "for v in args: val = reducer(val, v)"
RECURSIVE ReduceFold(_, _, _)
ReduceFold(op, val, rest) ==
  IF rest = <<>> THEN Ok(<<val>>)
  ELSE LET r == Reducer(op, val, Head(rest))
       IN  IF r.err # "" THEN r ELSE ReduceFold(op, r.vals[1], Tail(rest))

\* macro_reduce with the reducer the global name is bound to at the call
macro_reduce(red, args) ==
  IF args = <<>> THEN Err("expected at least one argument")
  ELSE ReduceFold(red, Head(args), Tail(args))

macro_concat(args) == Ok(<<StrV(Flatten(StrAll(args)))>>)

\* int(n)
ToInt(v) ==
  CASE v.t = "int" -> Ok(<<v>>)
    [] v.t = "float" ->
         Ok(<<IntV(IF v.n < 0 THEN -((-v.n) \div v.d) ELSE v.n \div v.d)>>)
    [] OTHER ->
         LET neg == v.s # <<>> /\ Head(v.s) \in {"-", "+"}
             ds == IF neg THEN Tail(v.s) ELSE v.s
         IN  IF ds # <<>> /\ \A i \in 1..Len(ds) : ds[i] \in Digit
             THEN Ok(<<IntV(IF neg /\ Head(v.s) = "-"
                            THEN -ParseDigits(ds, 0) ELSE ParseDigits(ds, 0))>>)
             ELSE Err("ValueError")

macro_repeat(args) ==
  IF args = <<>> THEN Err("TypeError")
  ELSE LET n == ToInt(Head(args))
       IN  IF n.err # "" THEN n ELSE Ok(RepeatSeq(n.vals[1].n, Tail(args)))

RECURSIVE Interleave(_, _)
Interleave(sep, xs) ==
  IF Len(xs) <= 1 THEN xs
  ELSE <<Head(xs), sep>> \o Interleave(sep, Tail(xs))

macro_separated(args) ==
  IF args = <<>> THEN Err("TypeError")
  ELSE Ok(Interleave(Head(args), Tail(args)))

\* the text printed by macro_debug
DebugLine(args) ==
  <<"d", "e", "b", "u", "g", ":", " ">>
    \o Flatten(StrAll(Interleave(StrV(<<" ">>), args)))

(***************************************************************************)
(* The registry as the module-level code leaves it.  The arithmetic loop   *)
(* rebinds the globals macro_name and reducer on every iteration and       *)
(* registers the same function body, which reads them when it is called.   *)
(***************************************************************************)
ReduceItems == <<"add", "sub", "mul", "div">>

RECURSIVE RegisterReducers(_, _)
RegisterReducers(i, st) ==
  IF i > Len(ReduceItems) THEN st
  ELSE RegisterReducers(i + 1,
         [macro_name |-> ReduceItems[i],
          reducer |-> ReduceItems[i],
          MACROS |-> [n \in DOMAIN st.MACROS \cup {ReduceItems[i]} |->
                        IF n = ReduceItems[i] THEN "macro_reduce" ELSE st.MACROS[n]]])

Registered ==
  LET first == [n \in {"dbg", "concat"} |->
                  IF n = "dbg" THEN "macro_debug" ELSE "macro_concat"]
      loop == RegisterReducers(1, [macro_name |-> "", reducer |-> "", MACROS |-> first])
      last == [include_eval |-> "macro_include_eval", include |-> "macro_include",
               no_outline |-> "macro_no_outline", repeat |-> "macro_repeat",
               separated |-> "macro_separated"]
  IN  [loop EXCEPT !.MACROS = [n \in DOMAIN loop.MACROS \cup DOMAIN last |->
                                 IF n \in DOMAIN last THEN last[n] ELSE loop.MACROS[n]]]

(***************************************************************************)
(* The state of a run.                                                     *)
(***************************************************************************)
VARIABLES
  fs,          \* the source tree: path -> content of the file
  argv,        \* args.files
  disk,        \* the output tree: destination path -> the chunks written
  log,         \* what was printed
  MACROS,      \* macro name -> macro function
  macro_name,  \* the global the arithmetic loop leaves bound
  reducer,     \* the global the arithmetic loop leaves bound
  heap,        \* the State objects created so far
  state,       \* the global "state": the index in heap of the current State
  stack,       \* the running macro_include_eval activations, innermost last
  lines,       \* process_file: the lines its call of macro_include_eval gave
  argi,        \* the top-level loop: index in argv of the current argument
  pc,          \* "main", "run", "write", "done" or "failed"
  error        \* the exception that ended the run

vars ==
  <<fs, argv, disk, log, MACROS, macro_name, reducer, heap, state, stack,
    lines, argi, pc, error>>

inputs == <<fs, argv, MACROS, macro_name, reducer>>

\* args.output[0]
output == <<"o", "u", "t">>

\* State(): the fields __init__ sets, then the two the caller assigns
State(variables, relpath) ==
  [variables |-> variables, emitlines |-> TRUE, emitoutline |-> TRUE,
   relpath |-> relpath]

\* an activation of macro_include_eval after its prologue
Frame(parent, pathname, content) ==
  [parent_state |-> parent, pathname |-> pathname,
   src_lines |-> Readlines(content),
   pat |-> make_tokenizer_pattern(GuessType(Basename(pathname))),
   li |-> 1, at |-> "lines", line |-> <<>>, starts |-> <<>>, span |-> <<0, 0>>,
   dst_parts |-> <<>>, last_column |-> 0, endpos |-> 0,
   tokens |-> <<>>, ti |-> 1, bodies |-> <<>>, dst_lines |-> <<>>]

\* an activation of eval_body: the block's body ("top"), the body of a group
\* or the arguments of a macro; vals are the values it has yielded, from the
\* index of its first token
Body(role, name, from) == [role |-> role, name |-> name, vals |-> <<>>, from |-> from]

Top == stack[Len(stack)]

Cur == Top.tokens[Top.ti]

TopBody == Top.bodies[Len(Top.bodies)]

SetTop(f) == [stack EXCEPT ![Len(stack)] = f]

\* frame f after its innermost body has yielded vals
Yield(f, vals) == [f EXCEPT !.bodies[Len(f.bodies)].vals = @ \o vals]

\* frame f after its innermost body has ended
PopBody(f) == [f EXCEPT !.bodies = SubSeq(@, 1, Len(@) - 1)]

\* a variant in which the exception is caught by process_file, which goes on
\* to write what it has
RaiseCaught(msg) == pc' = "write" /\ error' = msg

\* an exception leaves the program: nothing runs after it
Raise(msg) == pc' = "failed" /\ error' = msg

Evaluating == pc = "run" /\ stack # <<>> /\ Top.at = "eval"

\* a variant in which the arguments of a macro end after the first value
BodyEndsAfterOne ==
  /\ pc = "run" /\ stack # <<>> /\ Top.at = "eval"
  /\ \/ Cur.kind \in {"block_end", "group_close"}
     \/ TopBody.role = "macro" /\ TopBody.vals # <<>>

\* has_next() is false or peek() is a group_close: the innermost body ends
BodyEnds == Evaluating /\ Cur.kind \in {"block_end", "group_close"}

Calls(fn) ==
  /\ BodyEnds
  /\ TopBody.role = "macro"
  /\ MACROS[TopBody.name] = fn

\* frame f after the macro whose arguments were its innermost body returned
Returned(f, vals) == Yield(PopBody(f), vals)

(***************************************************************************)
(* macro_include_eval and process_file.                                    *)
(***************************************************************************)
\* the nesting of macro_include_eval activations the model follows
MaxDepth == 3

\* macro_include_eval(arg) up to the end of its prologue, called with the
\* activations in "under" below it: the child State becomes current, then the
\* file is opened and read.
IncludeEvalBegin(arg, under) ==
  LET parent_state == state
      pathname == PathJoin(heap[parent_state].relpath, Str(arg))
  IN  /\ heap' = Append(heap, State(heap[parent_state].variables, Dirname(pathname)))
      /\ state' = Len(heap) + 1
      /\ IF pathname \in DOMAIN fs
         THEN /\ stack' = Append(under, Frame(parent_state, pathname, fs[pathname]))
              /\ pc' = "run"
              /\ error' = error
         ELSE /\ stack' = under
              /\ Raise("FileNotFoundError")

ProcessingLine(source, destination) ==
  <<"p", "r", "o", "c", "e", "s", "s", "i", "n", "g", " ", "'">> \o source
    \o <<"'", " ", "-", ">", " ", "'">> \o destination \o <<"'">>

Source == Normpath(argv[argi])

Destination == PathJoin(output, Basename(Source))

\* the top-level loop takes an argument that is a file: process_file prints
\* and pulls the first line of macro_include_eval, which starts it
ProcessFile ==
  /\ pc = "main"
  /\ argi <= Len(argv)
  /\ Source \in DOMAIN fs
  /\ log' = Append(log, ProcessingLine(Source, Destination))
  /\ IncludeEvalBegin(StrV(Source), <<>>)
  /\ UNCHANGED <<inputs, disk, lines, argi>>

\* the top-level loop takes an argument that does not exist
MissingArgument ==
  /\ pc = "main"
  /\ argi <= Len(argv)
  /\ Source \notin DOMAIN fs
  /\ Raise("file or directory does not exists")
  /\ UNCHANGED <<inputs, disk, log, heap, state, stack, lines, argi>>

\* the top-level loop has taken every argument
Finish ==
  /\ pc = "main"
  /\ argi > Len(argv)
  /\ pc' = "done"
  /\ UNCHANGED <<inputs, disk, log, heap, state, stack, lines, argi, error>>

\* for line in src_lines: the locals of a line, and the block_start matches
NextLine ==
  /\ pc = "run" /\ stack # <<>>
  /\ Top.at = "lines"
  /\ Top.li <= Len(Top.src_lines)
  /\ LET line == Top.src_lines[Top.li]
     IN  stack' = SetTop([Top EXCEPT !.line = line, !.dst_parts = <<>>,
                                     !.last_column = 0,
                                     !.starts = FindAll(line, 0, Top.pat[1]),
                                     !.at = "blocks"])
  /\ UNCHANGED <<inputs, disk, log, heap, state, lines, argi, pc, error>>

\* for start in block_start.finditer(line): up to the call of eval_body
StartBlock ==
  /\ pc = "run" /\ stack # <<>>
  /\ Top.at = "blocks"
  /\ Top.starts # <<>>
  /\ LET span == Head(Top.starts)
     IN  stack' = SetTop([Top EXCEPT
           !.starts = Tail(@),
           !.span = span,
           !.dst_parts = IF Top.last_column < span[1]
                         THEN Append(@, Slice(Top.line, Top.last_column, span[1]))
                         ELSE @,
           !.endpos = span[2],
           !.tokens = tokenizer(Top.line, span[2], Top.pat[2]),
           !.ti = 1,
           !.bodies = <<Body("top", "", 1)>>,
           !.at = "eval"])
  /\ UNCHANGED <<inputs, disk, log, heap, state, lines, argi, pc, error>>

(***************************************************************************)
(* eval_body.  Each step starts with has_next(), which pulls the entry     *)
(* Cur from the tokenizer unless it was pulled already; the tokenizer      *)
(* stores its end offset in endpos.                                        *)
(***************************************************************************)
\* the tokenizer raises: a syntax error or the end of the line
TokenizerRaise ==
  /\ Evaluating
  /\ Cur.kind \in {"error", "eof"}
  /\ Raise(IF Cur.kind = "error" THEN "syntax error" ELSE "unexpected end of file")
  /\ UNCHANGED <<inputs, disk, log, heap, state, stack, lines, argi>>

EvalGroupOpen ==
  /\ Evaluating
  /\ Cur.kind = "group_open"
  /\ stack' = SetTop([Top EXCEPT !.endpos = Cur.endp, !.ti = @ + 1,
                                 !.bodies = Append(@, Body("group", "", Top.ti + 1))])
  /\ UNCHANGED <<inputs, disk, log, heap, state, lines, argi, pc, error>>

EvalVariable ==
  /\ Evaluating
  /\ Cur.kind = "variable"
  /\ IF Cur.name \in DOMAIN heap[state].variables
     THEN /\ stack' = SetTop(Yield([Top EXCEPT !.endpos = Cur.endp, !.ti = @ + 1],
                                   <<heap[state].variables[Cur.name]>>))
          /\ UNCHANGED <<pc, error>>
     ELSE /\ Raise("variable not found")
          /\ stack' = stack
  /\ UNCHANGED <<inputs, disk, log, heap, state, lines, argi>>

EvalLiteral ==
  /\ Evaluating
  /\ Cur.kind = "literal"
  /\ stack' = SetTop(Yield([Top EXCEPT !.endpos = Cur.endp, !.ti = @ + 1], <<Cur.val>>))
  /\ UNCHANGED <<inputs, disk, log, heap, state, lines, argi, pc, error>>

\* MACROS[name] is looked up, then eval_body is entered for the arguments
EvalMacro ==
  /\ Evaluating
  /\ Cur.kind = "macro"
  /\ IF Cur.name \in DOMAIN MACROS
     THEN /\ stack' = SetTop([Top EXCEPT !.endpos = Cur.endp, !.ti = @ + 1,
                                !.bodies = Append(@, Body("macro", Cur.name, Top.ti + 1))])
          /\ UNCHANGED <<pc, error>>
     ELSE /\ Raise("macro does not exists")
          /\ stack' = stack
  /\ UNCHANGED <<inputs, disk, log, heap, state, lines, argi>>

\* eval_group_untill_end after its body: next(tokens) is the group_close that
\* ended the body; at the end of the stream PeekIter gives None instead of
\* raising StopIteration, and token[0] raises a TypeError
EndGroup ==
  /\ BodyEnds
  /\ TopBody.role = "group"
  /\ IF Cur.kind = "group_close"
     THEN /\ stack' = SetTop(Returned([Top EXCEPT !.endpos = Cur.endp, !.ti = @ + 1],
                                      TopBody.vals))
          /\ UNCHANGED <<pc, error>>
     ELSE /\ Raise("TypeError")
          /\ stack' = stack
  /\ UNCHANGED <<inputs, disk, log, heap, state, lines, argi>>

\* a variant of line 191 that tests the flag alone
ClearsPartsAnyBlock(last_column, emitoutline) == ~emitoutline

\* line 191: the chunks queued for the line are kept unless this holds
ClearsParts(last_column, emitoutline) == last_column = 0 /\ ~emitoutline

\* the body of the block has ended: lines 190 to 195
EndBlock ==
  /\ BodyEnds
  /\ TopBody.role = "top"
  /\ LET parts == StrAll(TopBody.vals)
     IN  stack' = SetTop([Top EXCEPT
           !.endpos = Cur.endp,
           !.dst_parts = (IF ClearsParts(Top.last_column, heap[state].emitoutline)
                          THEN <<>> ELSE @) \o parts,
           !.last_column = Cur.endp,
           !.bodies = <<>>,
           !.at = "blocks"])
  /\ UNCHANGED <<inputs, disk, log, heap, state, lines, argi, pc, error>>

(***************************************************************************)
(* The call of MACROS[name] with the unpacked eval_body: the body that     *)
(* held the arguments has ended, the macro function is called with the     *)
(* values it yielded, and what the function yields is yielded by the       *)
(* enclosing body.                                                         *)
(***************************************************************************)
\* a macro function without effects returned or raised
PureCall(result) ==
  /\ IF result.err = ""
     THEN /\ stack' = SetTop(Returned(Top, result.vals))
          /\ UNCHANGED <<pc, error>>
     ELSE /\ Raise(result.err)
          /\ stack' = stack
  /\ UNCHANGED <<inputs, disk, log, heap, state, lines, argi>>

\* a variant of macro_debug that prints nothing
macro_debug_silent(out, args) == out

\* print("debug:", ...)
macro_debug(out, args) == Append(out, DebugLine(args))

MacroDebug ==
  /\ Calls("macro_debug")
  /\ log' = macro_debug(log, TopBody.vals)
  /\ stack' = SetTop(Returned(Top, <<>>))
  /\ UNCHANGED <<inputs, disk, heap, state, lines, argi, pc, error>>

MacroConcat == Calls("macro_concat") /\ PureCall(macro_concat(TopBody.vals))

MacroReduce == Calls("macro_reduce") /\ PureCall(macro_reduce(reducer, TopBody.vals))

MacroRepeat == Calls("macro_repeat") /\ PureCall(macro_repeat(TopBody.vals))

MacroSeparated == Calls("macro_separated") /\ PureCall(macro_separated(TopBody.vals))

\* macro_include(pathname): the lines of the file, or the exception
macro_include(relpath, args) ==
  IF Len(args) # 1 THEN Err("TypeError")
  ELSE LET pathname == PathJoin(relpath, Normpath(Str(args[1])))
       IN  IF pathname \in DOMAIN fs
           THEN Ok([i \in 1..Len(Readlines(fs[pathname])) |->
                      StrV(Readlines(fs[pathname])[i])])
           ELSE Err("FileNotFoundError")

MacroInclude ==
  /\ Calls("macro_include")
  /\ PureCall(macro_include(heap[state].relpath, TopBody.vals))

\* state.emitoutline = False
macro_no_outline(h, st) == [h EXCEPT ![st].emitoutline = FALSE]

MacroNoOutline ==
  /\ Calls("macro_no_outline")
  /\ IF TopBody.vals = <<>>
     THEN /\ heap' = macro_no_outline(heap, state)
          /\ stack' = SetTop(Returned(Top, <<>>))
          /\ UNCHANGED <<pc, error>>
     ELSE /\ Raise("TypeError")
          /\ UNCHANGED <<heap, stack>>
  /\ UNCHANGED <<inputs, disk, log, state, lines, argi>>

\* macro_include_eval(pathname) is called and entered
MacroIncludeEval ==
  /\ Calls("macro_include_eval")
  /\ Len(stack) < MaxDepth
  /\ IF Len(TopBody.vals) = 1
     THEN IncludeEvalBegin(TopBody.vals[1], SetTop(PopBody(Top)))
     ELSE /\ Raise("TypeError")
          /\ UNCHANGED <<heap, state, stack>>
  /\ UNCHANGED <<inputs, disk, log, lines, argi>>

\* a variant of lines 200 to 204 without the branch of line 203
LineTailNoTerminator(line, last_column, emitoutline) ==
  IF last_column < Len(line) /\ emitoutline
  THEN <<Slice(line, last_column, Len(line))>>
  ELSE <<>>

\* a variant of lines 200 to 204 that emits the tail only after a block
LineTailAfterBlock(line, last_column, emitoutline) ==
  IF 0 < last_column /\ last_column < Len(line)
  THEN IF emitoutline THEN <<Slice(line, last_column, Len(line))>>
       ELSE IF line[Len(line)] = "\n" THEN <<(<<"\n">>)>>
       ELSE <<>>
  ELSE <<>>

\* lines 200 to 204: what follows the last block of the line
LineTail(line, last_column, emitoutline) ==
  IF last_column < Len(line)
  THEN IF emitoutline THEN <<Slice(line, last_column, Len(line))>>
       ELSE IF line[Len(line)] = "\n" THEN <<(<<"\n">>)>>
       ELSE <<>>
  ELSE <<>>

\* the line has no further block: lines 197 to 206
EndLine ==
  /\ pc = "run" /\ stack # <<>>
  /\ Top.at = "blocks"
  /\ Top.starts = <<>>
  /\ stack' = SetTop([Top EXCEPT
       !.dst_lines = IF heap[state].emitlines
                     THEN @ \o Top.dst_parts
                            \o LineTail(Top.line, Top.last_column, heap[state].emitoutline)
                     ELSE @,
       !.li = @ + 1,
       !.at = "lines"])
  /\ heap' = [heap EXCEPT ![state].emitoutline = TRUE]
  /\ UNCHANGED <<inputs, disk, log, state, lines, argi, pc, error>>

\* a variant without line 208: the State of the activation stays current
RestoredNever(f) == state

\* line 208: the State that becomes current when the activation f ends
Restored(f) == f.parent_state

\* every line is done: the parent State is current again and dst_lines are
\* yielded, to the body that called the macro or to process_file
IncludeEvalReturn ==
  /\ pc = "run" /\ stack # <<>>
  /\ Top.at = "lines"
  /\ Top.li > Len(Top.src_lines)
  /\ state' = Restored(Top)
  /\ LET under == SubSeq(stack, 1, Len(stack) - 1)
         vals == [i \in 1..Len(Top.dst_lines) |-> StrV(Top.dst_lines[i])]
     IN  IF under = <<>>
         THEN /\ stack' = <<>>
              /\ lines' = Top.dst_lines
              /\ pc' = "write"
         ELSE /\ stack' = [under EXCEPT ![Len(under)] = Yield(@, vals)]
              /\ UNCHANGED <<lines, pc>>
  /\ UNCHANGED <<inputs, disk, log, heap, argi, error>>

\* process_file after macro_include_eval: no line, no file; otherwise the
\* destination is opened and the lines are written
WriteDestination ==
  /\ pc = "write"
  /\ disk' = IF lines = <<>> THEN disk
             ELSE [d \in DOMAIN disk \cup {Destination} |->
                     IF d = Destination THEN lines ELSE disk[d]]
  /\ lines' = <<>>
  /\ argi' = argi + 1
  /\ pc' = "main"
  /\ UNCHANGED <<inputs, log, heap, state, stack, error>>

(***************************************************************************)
(* The inputs of a run: a source tree, the file arguments and the -v       *)
(* bindings.  FileTable lists the files of the tree as <<path, content>>.  *)
(***************************************************************************)
FileTable ==
  <<<<(<<"a", ".", "t", "x", "t">>),
      (<<"a", "b", " ", "{", "@", " ", "$", "x", " ", "@", "}", " ", "c", "d", "\n">>)>>,
    <<(<<"b", ".", "t", "x", "t">>),
      (<<"o", "k", "\n", "{", "@", " ", "$", "y", " ", "@", "}", "\n">>)>>,
    <<(<<"c", ".", "t", "x", "t">>),
      (<<"p", "l", "a", "i", "n", "\n">>)>>,
    <<(<<"e", ".", "t", "x", "t">>),
      (<<>>)>>,
    <<(<<"m", ".", "t", "x", "t">>),
      (<<"x", "{", "@", " ", "i", "n", "c", "l", "u", "d", "e", "_", "e", "v", "a", "l", " ", "\"", "s", "u", "b", "/", "i", ".", "t", "x", "t", "\"", " ", "@", "}", "y", "\n", "{", "@", " ", "n", "o", "_", "o", "u", "t", "l", "i", "n", "e", " ", "@", "}", "{", "@", " ", "i", "n", "c", "l", "u", "d", "e", "_", "e", "v", "a", "l", " ", "\"", "s", "u", "b", "/", "i", ".", "t", "x", "t", "\"", " ", "@", "}", "z", "\n">>)>>,
    <<(<<"s", "u", "b", "/", "i", ".", "t", "x", "t">>),
      (<<"{", "@", " ", "n", "o", "_", "o", "u", "t", "l", "i", "n", "e", " ", "@", "}", "h", "i", "d", "\n", "I", "{", "@", " ", "i", "n", "c", "l", "u", "d", "e", "_", "e", "v", "a", "l", " ", "\"", "j", ".", "t", "x", "t", "\"", " ", "@", "}", "\n">>)>>,
    <<(<<"s", "u", "b", "/", "j", ".", "t", "x", "t">>),
      (<<"J", "{", "@", " ", "d", "b", "g", " ", "$", "x", " ", "1", " ", "@", "}", "\n">>)>>,
    <<(<<"n", ".", "t", "x", "t">>),
      (<<"n", "\n", "{", "@", " ", "i", "n", "c", "l", "u", "d", "e", "_", "e", "v", "a", "l", " ", "\"", "s", "u", "b", "/", "k", ".", "t", "x", "t", "\"", " ", "@", "}", "\n">>)>>,
    <<(<<"s", "u", "b", "/", "k", ".", "t", "x", "t">>),
      (<<"k", "{", "@", " ", "i", "n", "c", "l", "u", "d", "e", "_", "e", "v", "a", "l", " ", "\"", "n", "o", "p", "e", ".", "t", "x", "t", "\"", " ", "@", "}">>)>>,
    <<(<<"r", ".", "t", "x", "t">>),
      (<<"r", "{", "@", " ", "i", "n", "c", "l", "u", "d", "e", "_", "e", "v", "a", "l", " ", "\"", "r", ".", "t", "x", "t", "\"", " ", "@", "}", "\n">>)>>,
    <<(<<"p", ".", "h", "t", "m", "l">>),
      (<<"<", "!", "-", "-", "@", " ", "c", "o", "n", "c", "a", "t", " ", "\"", "a", "\\", "\"", "\"", " ", "1", " ", "2", ".", "5", "0", " ", "@", "-", "-", ">", "{", "@", " ", "1", " ", "@", "}", "\n">>)>>,
    <<(<<"q", ".", "t", "x", "t">>),
      (<<"{", "@", " ", "s", "e", "p", "a", "r", "a", "t", "e", "d", " ", "\"", ",", "\"", " ", "1", " ", "2", " ", "3", " ", "@", "}", "{", "@", " ", "r", "e", "p", "e", "a", "t", " ", "2", " ", "\"", "z", "\"", " ", "@", "}", "{", "@", " ", "i", "n", "c", "l", "u", "d", "e", " ", "\"", ".", "/", "c", ".", "t", "x", "t", "\"", " ", "@", "}", "{", "@", " ", "s", "u", "b", " ", "6", " ", "3", " ", "@", "}", "\n">>)>>,
    <<(<<"s", ".", "t", "x", "t">>),
      (<<"{", "@", " ", "#", " ", "@", "}">>)>>,
    <<(<<"t", ".", "t", "x", "t">>),
      (<<"{", "@", " ", "(", " ", "1", " ", "@", "}">>)>>,
    <<(<<"u", ".", "t", "x", "t">>),
      (<<"{", "@", " ", "z", "z", " ", "@", "}">>)>>,
    <<(<<"v", ".", "t", "x", "t">>),
      (<<"{", "@", " ", "i", "n", "c", "l", "u", "d", "e", " ", "1", " ", "2", " ", "@", "}">>)>>,
    <<(<<"w", ".", "t", "x", "t">>),
      (<<"{", "@", " ", "i", "n", "c", "l", "u", "d", "e", " ", "\"", "n", "o", "p", "e", "\"", " ", "@", "}">>)>>,
    <<(<<"x", ".", "t", "x", "t">>),
      (<<"{", "@", " ", "r", "e", "p", "e", "a", "t", " ", "\"", "q", "\"", " ", "1", " ", "@", "}">>)>>,
    <<(<<"y", ".", "t", "x", "t">>),
      (<<"{", "@", " ", "s", "e", "p", "a", "r", "a", "t", "e", "d", " ", "@", "}", "{", "@", " ", "r", "e", "p", "e", "a", "t", " ", "@", "}">>)>>,
    <<(<<"z", ".", "t", "x", "t">>),
      (<<"{", "@", " ", "i", "n", "c", "l", "u", "d", "e", "_", "e", "v", "a", "l", " ", "@", "}">>)>>,
    <<(<<"d", ".", "t", "x", "t">>),
      (<<"{", "@", " ", "m", "u", "l", " ", "\"", "a", "\"", " ", "1", " ", "@", "}">>)>>,
    <<(<<"o", ".", "t", "x", "t">>),
      (<<"{", "@", " ", "a", "d", "d", " ", "1", " ", "0", " ", "@", "}">>)>>,
    <<(<<"f", ".", "t", "x", "t">>),
      (<<"{", "@", " ", "n", "o", "_", "o", "u", "t", "l", "i", "n", "e", "(", ")", " ", "@", "}", "\n", "{", "@", " ", "m", "u", "l", " ", "2", " ", "3", " ", "@", "}", "\n", "{", "@", " ", "n", "o", "_", "o", "u", "t", "l", "i", "n", "e", "(", ")", " ", "@", "}">>)>>>>


FS(table) ==
  [p \in {table[i][1] : i \in 1..Len(table)} |->
     (CHOOSE e \in {table[i] : i \in 1..Len(table)} : e[1] = p)[2]]

\* -v x=5
Variables == [n \in {"x"} |-> StrV(<<"5">>)]

Seqs(S, n) == UNION {[1..k -> S] : k \in 0..n}

\* args.files has at least one element
Args(S, n) == Seqs(S, n) \ {<<>>}

\* every file of the tree as the only argument, and a missing argument
Missing == <<"n", "o", ".", "t", "x", "t">>

SingleRuns == {<<FileTable[i][1]>> : i \in 1..Len(FileTable)} \cup {<<Missing>>}

\* the number of file arguments of a run
MaxFiles == 3

RunPool == {FileTable[i][1] : i \in {1, 2, 3, 4, 5, 8}} \cup {Missing}

\* the file a generated content is stored in
Generated == <<"g", ".", "t", "x", "t">>

\* the number of tokens of a generated block
MaxBody == 4

EvalSegs ==
  {<<"1">>,
   <<"2">>,
   <<"(">>,
   <<")">>,
   <<"a", "d", "d">>,
   <<"d", "b", "g">>,
   <<"n", "o", "_", "o", "u", "t", "l", "i", "n", "e">>}

RECURSIVE Spaced(_)
Spaced(body) == IF body = <<>> THEN <<>> ELSE <<" ">> \o Head(body) \o Spaced(Tail(body))

\* one line with one block of generated tokens, with or without a block end
EvalFiles ==
  {<<"{", "@">> \o Spaced(b) \o c :
     b \in Seqs(EvalSegs, MaxBody),
     c \in {<<" ", "@", "}", "\n">>, <<"\n">>}}

\* the number of segments of a generated file
MaxSegs == 4

LineSegs ==
  {<<"a", "b", " ">>,
   <<"\n">>,
   <<"\r">>,
   <<"{", "@", " ", "n", "o", "_", "o", "u", "t", "l", "i", "n", "e", " ", "@", "}">>,
   <<"{", "@", " ", "1", " ", "@", "}">>,
   <<"{", "@", " ", "\"", "{", "@", " ", "2", " ", "@", "}", "\"", " ", "@", "}">>,
   <<"{", "@", " ", "1", " ", ")", " ">>}

\* a file of generated segments: text, line ends and blocks
LineFiles == {Flatten(b) : b \in Seqs(LineSegs, MaxSegs)}

InitWith(tree, args) ==
  /\ fs = tree
  /\ argv = args
  /\ disk = << >>
  /\ log = <<>>
  /\ MACROS = Registered.MACROS
  /\ macro_name = Registered.macro_name
  /\ reducer = Registered.reducer
  /\ heap = <<State(Variables, <<>>)>>
  /\ state = 1
  /\ stack = <<>>
  /\ lines = <<>>
  /\ argi = 1
  /\ pc = "main"
  /\ error = ""

WithGenerated(content) == FS(Append(FileTable, <<Generated, content>>))

\* runs over the files of the tree
Init ==
  \E args \in SingleRuns \cup Args(RunPool, MaxFiles) : InitWith(FS(FileTable), args)

\* runs over one generated block
InitEval ==
  \/ \E args \in SingleRuns : InitWith(FS(FileTable), args)
  \/ \E c \in EvalFiles : InitWith(WithGenerated(c), <<Generated>>)

\* runs over one generated file
InitLine ==
  \/ \E args \in SingleRuns : InitWith(FS(FileTable), args)
  \/ \E c \in LineFiles : InitWith(WithGenerated(c), <<Generated>>)

Next ==
  \/ ProcessFile
  \/ MissingArgument
  \/ Finish
  \/ NextLine
  \/ StartBlock
  \/ TokenizerRaise
  \/ EvalGroupOpen
  \/ EvalVariable
  \/ EvalLiteral
  \/ EvalMacro
  \/ EndGroup
  \/ EndBlock
  \/ MacroDebug
  \/ MacroConcat
  \/ MacroReduce
  \/ MacroRepeat
  \/ MacroSeparated
  \/ MacroInclude
  \/ MacroNoOutline
  \/ MacroIncludeEval
  \/ EndLine
  \/ IncludeEvalReturn
  \/ WriteDestination

Spec == Init /\ [][Next]_vars

SpecEval == InitEval /\ [][Next]_vars

SpecLine == InitLine /\ [][Next]_vars

(***************************************************************************)
(* Properties.                                                             *)
(***************************************************************************)
\* the step that ends the body of a block (EndBlock)
BlockEnds == BodyEnds /\ TopBody.role = "top"

\* the step that calls a macro function
MacroCalled == BodyEnds /\ TopBody.role = "macro"

\* the step that ends a line (EndLine)
LineEnds == pc = "run" /\ stack # <<>> /\ Top.at = "blocks" /\ Top.starts = <<>>

\* the step that ends an activation of macro_include_eval (IncludeEvalReturn)
Returns ==
  pc = "run" /\ stack # <<>> /\ Top.at = "lines" /\ Top.li > Len(Top.src_lines)

IsInt(v) == v.t = "int"

\* C1: each arithmetic macro left-folds its own operator over its integer
\* arguments: add yields their sum, sub the left-to-right difference, mul the
\* product.
C1_OwnOperator ==
  [][(/\ Calls("macro_reduce")
      /\ TopBody.name \in {"add", "sub", "mul"}
      /\ TopBody.vals # <<>>
      /\ \A i \in 1..Len(TopBody.vals) : IsInt(TopBody.vals[i]))
     => stack' = SetTop(Returned(Top, macro_reduce(TopBody.name, TopBody.vals).vals))]_vars

\* C2 as stated: the chunks queued for the line are discarded only when the
\* block begins at column 0 and emitoutline is false; the text queued before
\* a block that begins at a column greater than 0 is kept.
C2_ColumnZeroOnly ==
  [][(BlockEnds /\ Top.span[1] > 0)
     => stack'[Len(stack)].dst_parts = Top.dst_parts \o StrAll(TopBody.vals)]_vars

\* the blocks of the current line evaluated before the one that is ending
EvaluatedBefore(f) == Len(FindAll(f.line, 0, f.pat[1])) - Len(f.starts) - 1

\* C2 as amended: the chunks queued for the line are discarded exactly when
\* the block that ends is the first block evaluated on the line, at whatever
\* column it begins, and emitoutline is false; after every later block the
\* queued chunks are kept even if emitoutline is false.
C2_FirstBlockOnly ==
  [][BlockEnds
     => stack'[Len(stack)].dst_parts =
          (IF EvaluatedBefore(Top) = 0 /\ ~heap[state].emitoutline
           THEN <<>> ELSE Top.dst_parts) \o StrAll(TopBody.vals)]_vars

C2_Witness ==
  /\ pc = "run" /\ stack # <<>>
  /\ Top.at = "blocks"
  /\ EvaluatedBefore(Top) >= 1
  /\ ~heap[state].emitoutline
  /\ Len(Top.dst_parts) >= 2

\* a line whose only content is a no_outline block at column 0, with or
\* without a line terminator
NoOutlineLine(f) ==
  /\ StartsWith(f.line, 0, f.pat[1])
  /\ LET toks == tokenizer(f.line, Len(f.pat[1]), f.pat[2])
         kinds == [i \in 1..Len(toks) |-> toks[i].kind]
     IN  /\ kinds \in {<<"macro", "block_end">>,
                       <<"macro", "group_open", "group_close", "block_end">>}
         /\ toks[1].name = "no_outline"
         /\ Slice(f.line, toks[Len(toks)].endp, Len(f.line)) \in {<<>>, <<"\n">>}

\* C3 as stated: a line whose only content is a no_outline block at column 0
\* appends no chunk to the output, with or without a line terminator.
C3_NoChunk ==
  [][(LineEnds /\ NoOutlineLine(Top))
     => stack'[Len(stack)].dst_lines = Top.dst_lines]_vars

\* C3 as amended: such a line appends no chunk when it has no line terminator
\* and exactly one chunk, the line terminator alone, when it has one.
C3_TerminatorOnly ==
  [][(LineEnds /\ NoOutlineLine(Top))
     => stack'[Len(stack)].dst_lines =
          Top.dst_lines \o (IF Top.line[Len(Top.line)] = "\n"
                            THEN <<(<<"\n">>)>> ELSE <<>>)]_vars

C3_Witness ==
  /\ pc = "run" /\ stack # <<>>
  /\ Top.at = "lines" /\ Top.li > 1
  /\ NoOutlineLine(Top)
  /\ Top.line[Len(Top.line)] = "\n"
  /\ Top.dst_lines # <<>>
  /\ Top.dst_lines[Len(Top.dst_lines)] = <<"\n">>

\* C4: a block completes only by consuming its block-end marker, and the
\* line position is then the offset after that marker.
C4_BlockEndConsumed ==
  [][BlockEnds
     => /\ Cur.kind = "block_end"
        /\ stack'[Len(stack)].last_column = Cur.endp]_vars

\* C5: a failure writes nothing and ends the run: no step follows it, so no
\* later source file is processed; the step that fails and every step of
\* the processing of a file before its lines are complete leave the
\* destination files as they are.
C5_FailureWritesNothing ==
  [][/\ pc # "failed"
     /\ (error' # "" => pc' = "failed")
     /\ (pc' = "failed" => disk' = disk /\ argi' = argi)
     /\ (pc # "write" => disk' = disk)
     /\ (pc = "write" => pc' = "main")]_vars

C5_Witness ==
  /\ pc = "failed"
  /\ error = "variable not found"
  /\ argi = 2 /\ Len(argv) = 3
  /\ DOMAIN disk = {PathJoin(output, Basename(Normpath(argv[1])))}
  /\ Basename(Normpath(argv[2])) # Basename(Normpath(argv[1]))

\* the index of the first group_close not matched by a group_open from index
\* j on, or of the entry that ends the stream
RECURSIVE NextUnmatched(_, _, _)
NextUnmatched(toks, j, depth) ==
  IF j >= Len(toks) THEN Len(toks)
  ELSE IF toks[j].kind = "group_open" THEN NextUnmatched(toks, j + 1, depth + 1)
  ELSE IF toks[j].kind = "group_close"
       THEN IF depth = 0 THEN j ELSE NextUnmatched(toks, j + 1, depth - 1)
  ELSE NextUnmatched(toks, j + 1, depth)

\* C6: when a macro function is called, its arguments are the values of all
\* the expressions from the macro name to the next unmatched group_close or
\* the end of the stream (of the literals themselves when there is nothing
\* else), and after the call the enclosing body is at its end: it yields no
\* further value.
C6_GreedyArguments ==
  [][MacroCalled
     => /\ Top.ti = NextUnmatched(Top.tokens, TopBody.from, 0)
        /\ (\A j \in TopBody.from..(Top.ti - 1) : Top.tokens[j].kind = "literal")
             => TopBody.vals = [i \in 1..(Top.ti - TopBody.from) |->
                                  Top.tokens[TopBody.from + i - 1].val]
        /\ (pc' = "run" /\ Len(stack') = Len(stack)) => BodyEnds']_vars

C6_Witness ==
  /\ MacroCalled
  /\ Cur.kind = "group_close"
  /\ Len(TopBody.vals) >= 2
  /\ Top.ti - TopBody.from >= 2

\* a macro body below the innermost one holds the arguments of no_outline
UnderNoOutline ==
  \E i \in 1..(Len(Top.bodies) - 1) :
    Top.bodies[i].role = "macro" /\ MACROS[Top.bodies[i].name] = "macro_no_outline"

\* C7 as stated: the argument expressions of a macro that does not use its
\* arguments, as no_outline, are never evaluated: no call of a macro among
\* them prints, changes a flag or includes a file.
C7_UnusedNotForced ==
  [][(MacroCalled /\ UnderNoOutline)
     => log' = log /\ heap' = heap /\ Len(stack') = Len(stack)]_vars

IsDebug(l) == StartsWith(l, 0, <<"d", "e", "b", "u", "g", ":">>)

\* the dbg tokens among the arguments of the innermost body
DebugArgs(f) ==
  Cardinality({j \in f.bodies[Len(f.bodies)].from..(f.ti - 1) :
                 f.tokens[j].kind = "macro" /\ f.tokens[j].name = "dbg"})

\* C7 as amended: the argument expressions of a macro are evaluated in full
\* before the macro function is called, whether or not it uses them: when
\* the function is called, every dbg among its arguments has printed.
C7_ForcedBeforeCall ==
  MacroCalled
    => /\ Len(log) >= DebugArgs(Top)
       /\ \A i \in (Len(log) - DebugArgs(Top) + 1)..Len(log) : IsDebug(log[i])

C7_Witness ==
  /\ Calls("macro_no_outline")
  /\ TopBody.vals = <<>>
  /\ DebugArgs(Top) >= 1
  /\ IsDebug(log[Len(log)])

\* the content has no block-start marker of the delimiters of the file
NoBlockStart(path) ==
  FindAll(fs[path], 0, make_tokenizer_pattern(GuessType(Basename(path)))[1]) = <<>>

\* C8 as stated: a source file with no block-start marker, the empty file
\* included, gets a destination file with the content of the source.
C8_RoundTrip ==
  [][(pc = "write" /\ NoBlockStart(Source))
     => /\ Destination \in DOMAIN disk'
        /\ Flatten(disk'[Destination]) = fs[Source]]_vars

\* C8 as amended: a source file with no block-start marker that is not empty
\* gets a destination file whose content is the source's with every "\r\n"
\* and "\r" replaced by "\n", hence the same content when it has no "\r";
\* for the empty file no destination file is created.
C8_RoundTripAsRead ==
  [][(pc = "write" /\ NoBlockStart(Source))
     => IF fs[Source] = <<>> THEN disk' = disk
        ELSE /\ Destination \in DOMAIN disk'
             /\ Flatten(disk'[Destination]) = Universal(fs[Source])
             /\ ((\A i \in 1..Len(fs[Source]) : fs[Source][i] # "\r")
                   => Flatten(disk'[Destination]) = fs[Source])]_vars

C8_Witness ==
  /\ pc = "main" /\ argi = 2
  /\ NoBlockStart(Normpath(argv[1]))
  /\ Len(fs[Normpath(argv[1])]) >= 4
  /\ \A i \in 1..Len(fs[Normpath(argv[1])]) : fs[Normpath(argv[1])][i] # "\r"
  /\ Flatten(disk[PathJoin(output, Basename(Normpath(argv[1])))]) = fs[Normpath(argv[1])]

\* C9: one State is current, and the States follow the activations: while an
\* activation of macro_include_eval runs, no step changes the State of its
\* caller, which is not the current one; when the activation returns its
\* lines, the caller's State is current again, as it was when the call began;
\* between two files the root State is current.
C9_StackDiscipline ==
  [][/\ state \in 1..Len(heap)
     /\ \A i \in 1..Len(stack) :
          /\ stack[i].parent_state # state
          /\ heap'[stack[i].parent_state] = heap[stack[i].parent_state]
     /\ Returns => /\ state' = Top.parent_state
                   /\ heap'[state'] = heap[state']
     /\ pc' \in {"main", "write", "done"} => state' = 1]_vars

C9_Witness ==
  /\ Evaluating
  /\ Len(stack) = 1
  /\ ~heap[state].emitoutline
  /\ state = 2
  /\ Len(heap) >= 6
  /\ TopBody.vals # <<>>

\* C10: on a line the blocks are evaluated left to right: a block-start
\* match that is evaluated begins at or after the end of the block evaluated
\* before it, so last_column never moves backwards.
C10_LeftToRight ==
  [][(pc = "run" /\ stack # <<>> /\ Top.at = "blocks" /\ Top.starts # <<>>)
     => Head(Top.starts)[1] >= Top.last_column]_vars

====
